---- MODULE Spec2Model ----
(***************************************************************************)
(* Model of main() of the muon-sector demonstration program (main.cpp).    *)
(* The program is one linear script: it builds a QED model, computes the   *)
(* muon self-energy, the muon magnetic moment, and generates the library   *)
(* "demolib".  Statements are identified by their line in main.cpp.  Every *)
(* call into the framework either returns or throws; main() has no         *)
(* try/catch, so a throw ends the process.  Standard input is an           *)
(* environment that delivers lines or closes the stream at any time.       *)
(***************************************************************************)
EXTENDS Integers, Sequences, FiniteSets, TLC

\* ---------------------------------------------------------------- bounds
\* Largest size of the WilsonSet returned by getWilsonCoefficients.
MaxWilson == 3
\* Number of lines the user may type during a run.
MaxLines == 3
\* Largest number of characters typed on a line before the newline.
MaxExtra == 1

VARIABLES
    pc,         \* line of the next statement of main() to execute
    status,     \* "running", "returned", "terminated" (uncaught throw), "crashed"
    exitCode,   \* -1 while running, else the process exit status
    model,      \* the Model object
    muon,       \* the Particle muon
    lib,        \* the Library object
    wsLen,      \* size of wilsonsSelfEnergy, -1 before it is assigned
    accesses,   \* the operator[] accesses made on wilsonsSelfEnergy
    garbage,    \* local variables holding an indeterminate value
    producer,   \* for each local variable the stage that defined it (0: none)
    reads,      \* the reads of local variables made so far
    calls,      \* the framework calls issued so far, in order
    stdin,      \* characters delivered to the process and not yet read
    eof,        \* standard input has been closed
    typed,      \* number of lines typed
    newlines,   \* number of newline characters received on standard input
    gotInput    \* one entry per completed cin.get(): TRUE iff it read a character

vars == <<pc, status, exitCode, model, muon, lib, wsLen, accesses, garbage,
          producer, reads, calls, stdin, eof, typed, newlines, gotInput>>

ioVars == <<stdin, eof, typed, newlines, gotInput>>
objVars == <<model, muon, lib>>
wilsonVars == <<wsLen, accesses, garbage>>

\* ------------------------------------------------------- program layout
\* The statements of main(), by source line, in textual order.
Lines ==
    << 49, 50, 51, 53, 58, 59, 60, 61, 64, 67, 71, 73, 75,
       83, 93, 97, 98, 99, 105, 106, 107, 119, 120, 126, 127, 130,
       137, 138, 140, 144, 145, 149, 150,
       159, 165, 169, 170, 171, 179, 186, 191, 192, 196, 197, 204, 205,
       209, 210,
       221, 226, 230, 231, 232, 233, 234, 235, 241, 244 >>

\* Line after the closing brace of main().
EndLine == 245

IndexOf(l) == CHOOSE i \in 1..Len(Lines) : Lines[i] = l

\* Sequential control flow, a refresh() that was forgotten.
AfterNoRefresh(l) ==
    IF l = 61 THEN 67
    ELSE IF IndexOf(l) = Len(Lines) THEN EndLine ELSE Lines[IndexOf(l) + 1]

\* Sequential control flow with the magnetic-moment stage placed before the
\* self-energy stage.
AfterStagesSwapped(l) ==
    IF l = 75 THEN 159
    ELSE IF l = 210 THEN 83
    ELSE IF l = 150 THEN 221
    ELSE IF IndexOf(l) = Len(Lines) THEN EndLine ELSE Lines[IndexOf(l) + 1]

\* Sequential control flow with two addFunction statements exchanged.
AfterAddSwapped(l) ==
    IF l = 230 THEN 232
    ELSE IF l = 232 THEN 231
    ELSE IF l = 231 THEN 233
    ELSE IF IndexOf(l) = Len(Lines) THEN EndLine ELSE Lines[IndexOf(l) + 1]

\* Sequential control flow with cleanExistingSources() placed after the
\* first addFunction.
AfterCleanLate(l) ==
    IF l = 221 THEN 230
    ELSE IF l = 230 THEN 226
    ELSE IF l = 226 THEN 231
    ELSE IF IndexOf(l) = Len(Lines) THEN EndLine ELSE Lines[IndexOf(l) + 1]

\* Sequential control flow with init() placed before addGaugedGroup().
AfterInitFirst(l) ==
    IF l = 49 THEN 51
    ELSE IF l = 51 THEN 50
    ELSE IF l = 50 THEN 53
    ELSE IF IndexOf(l) = Len(Lines) THEN EndLine ELSE Lines[IndexOf(l) + 1]

\* Sequential control flow of main(): the statement executed after line l.
After(l) ==
    IF IndexOf(l) = Len(Lines) THEN EndLine ELSE Lines[IndexOf(l) + 1]

\* The stage a statement belongs to (section banners of main.cpp).
StageOf(l) ==
    IF l <= 75 THEN 1
    ELSE IF l <= 150 THEN 2
    ELSE IF l <= 210 THEN 3
    ELSE 4

\* The framework function called by the statement at line l.
CallName(l) ==
    CASE l = 49 -> "Model"
      [] l = 50 -> "addGaugedGroup"
      [] l = 51 -> "init"
      [] l = 53 -> "renameParticle"
      [] l = 58 -> "diracfermion_s"
      [] l = 59 -> "setGroupRep"
      [] l = 60 -> "setMass"
      [] l = 61 -> "addParticle"
      [] l = 64 -> "refresh"
      [] l = 71 -> "getFeynmanRules"
      [] l = 93 -> "computeAmplitude"
      [] l = 106 -> "getWilsonCoefficients"
      [] l = 137 -> "computeSquaredAmplitude"
      [] l = 165 -> "computeWilsonCoefficients"
      [] l = 179 -> "chromoMagneticOperator"
      [] l = 186 -> "getWilsonCoefficient"
      [] l = 221 -> "Library"
      [] l = 226 -> "cleanExistingSources"
      [] l = 241 -> "build"
      [] l \in {67, 98, 107, 170} -> "Display"
      [] l \in {99, 171} -> "Show"
      [] l \in {127, 130, 140, 192, 196} -> "Evaluated"
      [] l \in {144, 204} -> "DeepHardFactored"
      [] l \in 230..235 -> "addFunction"
      [] OTHER -> "none"

\* The local variables of main().
Locals ==
    { "model", "muon", "selfEnergy", "wilsonsSelfEnergy",
      "muonSelfEnergy_mTerm", "muonSelfEnergy_pTerm", "squaredSelfEnergy",
      "evaluatedSelfEnergy", "simplifiedSelfEnergy", "wilsonsMuonVertex",
      "muonMagOp", "muonMagneticMoment", "evaluatedMagneticMoment",
      "simplifiedMagneticMoment", "lib" }

\* The local variables the statement at line l defines.
Writes(l) ==
    CASE l = 49 -> {"model"}
      [] l = 58 -> {"muon"}
      [] l = 93 -> {"selfEnergy"}
      [] l = 106 -> {"wilsonsSelfEnergy"}
      [] l = 119 -> {"muonSelfEnergy_mTerm"}
      [] l = 120 -> {"muonSelfEnergy_pTerm"}
      [] l = 137 -> {"squaredSelfEnergy"}
      [] l = 140 -> {"evaluatedSelfEnergy"}
      [] l = 144 -> {"simplifiedSelfEnergy"}
      [] l = 165 -> {"wilsonsMuonVertex"}
      [] l = 179 -> {"muonMagOp"}
      [] l = 186 -> {"muonMagneticMoment"}
      [] l = 196 -> {"evaluatedMagneticMoment"}
      [] l = 204 -> {"simplifiedMagneticMoment"}
      [] l = 221 -> {"lib"}
      [] OTHER -> {}

\* The reads of line 186 with the wrong WilsonSet passed.
ReadsWrongSet(l) ==
    CASE l \in {50, 51, 53, 58, 64, 67, 71, 93} -> {"model"}
      [] l \in {59, 60} -> {"muon"}
      [] l = 61 -> {"model", "muon"}
      [] l \in {98, 99} -> {"selfEnergy"}
      [] l \in {106, 137} -> {"model", "selfEnergy"}
      [] l \in {107, 119, 120} -> {"wilsonsSelfEnergy"}
      [] l = 127 -> {"muonSelfEnergy_mTerm"}
      [] l = 130 -> {"muonSelfEnergy_pTerm"}
      [] l = 140 -> {"squaredSelfEnergy"}
      [] l = 144 -> {"evaluatedSelfEnergy"}
      [] l = 145 -> {"squaredSelfEnergy", "evaluatedSelfEnergy",
                     "simplifiedSelfEnergy"}
      [] l = 165 -> {"model"}
      [] l \in {170, 171} -> {"wilsonsMuonVertex"}
      [] l = 179 -> {"model", "wilsonsMuonVertex"}
      [] l = 186 -> {"wilsonsSelfEnergy", "muonMagOp"}
      [] l \in {192, 196} -> {"muonMagneticMoment"}
      [] l \in {197, 204} -> {"evaluatedMagneticMoment"}
      [] l = 205 -> {"simplifiedMagneticMoment"}
      [] l \in {226, 241} -> {"lib"}
      [] l = 230 -> {"lib", "muonSelfEnergy_mTerm"}
      [] l = 231 -> {"lib", "muonSelfEnergy_pTerm"}
      [] l = 232 -> {"lib", "squaredSelfEnergy"}
      [] l = 233 -> {"lib", "muonMagneticMoment"}
      [] l = 234 -> {"lib", "evaluatedMagneticMoment"}
      [] l = 235 -> {"lib", "simplifiedMagneticMoment"}
      [] OTHER -> {}

\* The local variables the statement at line l reads.
Reads(l) ==
    CASE l \in {50, 51, 53, 58, 64, 67, 71, 93} -> {"model"}
      [] l \in {59, 60} -> {"muon"}
      [] l = 61 -> {"model", "muon"}
      [] l \in {98, 99} -> {"selfEnergy"}
      [] l \in {106, 137} -> {"model", "selfEnergy"}
      [] l \in {107, 119, 120} -> {"wilsonsSelfEnergy"}
      [] l = 127 -> {"muonSelfEnergy_mTerm"}
      [] l = 130 -> {"muonSelfEnergy_pTerm"}
      [] l = 140 -> {"squaredSelfEnergy"}
      [] l = 144 -> {"evaluatedSelfEnergy"}
      [] l = 145 -> {"squaredSelfEnergy", "evaluatedSelfEnergy",
                     "simplifiedSelfEnergy"}
      [] l = 165 -> {"model"}
      [] l \in {170, 171} -> {"wilsonsMuonVertex"}
      [] l = 179 -> {"model", "wilsonsMuonVertex"}
      [] l = 186 -> {"wilsonsMuonVertex", "muonMagOp"}
      [] l \in {192, 196} -> {"muonMagneticMoment"}
      [] l \in {197, 204} -> {"evaluatedMagneticMoment"}
      [] l = 205 -> {"simplifiedMagneticMoment"}
      [] l \in {226, 241} -> {"lib"}
      [] l = 230 -> {"lib", "muonSelfEnergy_mTerm"}
      [] l = 231 -> {"lib", "muonSelfEnergy_pTerm"}
      [] l = 232 -> {"lib", "squaredSelfEnergy"}
      [] l = 233 -> {"lib", "muonMagneticMoment"}
      [] l = 234 -> {"lib", "evaluatedMagneticMoment"}
      [] l = 235 -> {"lib", "simplifiedMagneticMoment"}
      [] OTHER -> {}

\* The function name passed by the addFunction statement at line l.
FunctionName(l) ==
    CASE l = 230 -> "mu_self_e_mterm"
      [] l = 231 -> "mu_self_e_pterm"
      [] l = 232 -> "mu_self_e_squared"
      [] l = 233 -> "mu_magnetic_vertex"
      [] l = 234 -> "mu_magnetic_vertex_eval"
      [] l = 235 -> "mu_magnetic_vertex_simpli"
      [] OTHER -> "none"

\* ---------------------------------------------------------- initial state
Init ==
    /\ pc = 49
    /\ status = "running"
    /\ exitCode = -1
    /\ model = [constructed |-> FALSE, groups |-> {}, inited |-> FALSE,
                renamed |-> FALSE, particles |-> {}, refreshed |-> FALSE]
    /\ muon = [created |-> FALSE, reps |-> {}, mass |-> FALSE]
    /\ lib = [constructed |-> FALSE, cleans |-> << >>, functions |-> << >>,
              builds |-> 0, addsAfterBuild |-> 0]
    /\ wsLen = -1
    /\ accesses = {}
    /\ garbage = {}
    /\ producer = [v \in Locals |-> 0]
    /\ reads = {}
    /\ calls = << >>
    /\ stdin = << >>
    /\ eof = FALSE
    /\ typed = 0
    /\ newlines = 0
    /\ gotInput = << >>

\* ------------------------------------------------------------ step pieces
At(ls) == status = "running" /\ pc \in ls

\* The statement at line l reads its operands.
DoReads(l) ==
    reads' = reads \cup
        { [stage |-> StageOf(l), var |-> v, from |-> producer[v], line |-> l]
            : v \in Reads(l) }

\* The statement at line l completes and control moves on.
Flow(l) ==
    /\ pc' = After(l)
    /\ UNCHANGED <<status, exitCode>>
    /\ DoReads(l)
    /\ producer' = [v \in Locals |->
                        IF v \in Writes(l) THEN StageOf(l) ELSE producer[v]]

\* A framework call is issued at line l; ok tells whether it returns.
Call(l, ok) ==
    calls' = Append(calls,
        [name |-> CallName(l), line |-> l, stage |-> StageOf(l), ok |-> ok,
         inited |-> model.inited, fresh |-> model.refreshed,
         hasEm |-> "em" \in model.groups])

\* An exception that a handler swallows, execution going on.
TerminateCaught(l) ==
    /\ pc' = After(l)
    /\ UNCHANGED <<status, exitCode>>

\* An exception leaves main(), which has no handler: std::terminate aborts.
Terminate(l) ==
    /\ pc' = l
    /\ status' = "terminated"
    /\ exitCode' = 134

\* The framework call at line l throws.
Throws(l) ==
    /\ Call(l, FALSE)
    /\ Terminate(l)
    /\ DoReads(l)
    /\ UNCHANGED <<producer, objVars, wilsonVars, ioVars>>

\* The process dies on a memory fault at line l.
Crash(l) ==
    /\ pc' = l
    /\ status' = "crashed"
    /\ exitCode' = 139
    /\ DoReads(l)
    /\ UNCHANGED <<producer, calls, objVars, wilsonVars, ioVars>>

\* The framework call at line l returns.
Returns(l) == Call(l, TRUE) /\ Flow(l)

\* The statement at line l uses a variable holding an indeterminate value.
UsesGarbage(l) == Reads(l) \cap garbage # {}

\* ---------------------------------------------------- stage 1: the model
\* Model model;
ConstructModel ==
    /\ At({49})
    /\ \/ Throws(49)
       \/ /\ Returns(49)
          /\ model' = [model EXCEPT !.constructed = TRUE]
          /\ UNCHANGED <<muon, lib, wilsonVars, ioVars>>

\* model.addGaugedGroup(group::Type::U1, "em", constant_s("e"));
AddGaugedGroup ==
    /\ At({50})
    /\ \/ Throws(50)
       \/ /\ Returns(50)
          /\ model' = [model EXCEPT !.groups = @ \cup {"em"},
                                    !.refreshed = FALSE]
          /\ UNCHANGED <<muon, lib, wilsonVars, ioVars>>

\* model.init();
ModelInit ==
    /\ At({51})
    /\ \/ Throws(51)
       \/ /\ Returns(51)
          /\ model' = [model EXCEPT !.inited = TRUE]
          /\ UNCHANGED <<muon, lib, wilsonVars, ioVars>>

\* model.renameParticle("A_em", "A");
RenameParticle ==
    /\ At({53})
    /\ \/ Throws(53)
       \/ /\ Returns(53)
          /\ model' = [model EXCEPT !.renamed = TRUE]
          /\ UNCHANGED <<muon, lib, wilsonVars, ioVars>>

\* Particle muon = diracfermion_s("mu ; \\mu", model);
DiracFermion ==
    /\ At({58})
    /\ \/ Throws(58)
       \/ /\ Returns(58)
          /\ muon' = [muon EXCEPT !.created = TRUE]
          /\ UNCHANGED <<model, lib, wilsonVars, ioVars>>

\* muon->setGroupRep("em", -1);
SetGroupRep ==
    /\ At({59})
    /\ \/ Throws(59)
       \/ /\ Returns(59)
          /\ muon' = [muon EXCEPT !.reps = @ \cup {<<"em", -1>>}]
          /\ UNCHANGED <<model, lib, wilsonVars, ioVars>>

\* muon->setMass(constant_s("m_mu"));
SetMass ==
    /\ At({60})
    /\ \/ Throws(60)
       \/ /\ Returns(60)
          /\ muon' = [muon EXCEPT !.mass = TRUE]
          /\ UNCHANGED <<model, lib, wilsonVars, ioVars>>

\* model.addParticle(muon);
AddParticle ==
    /\ At({61})
    /\ \/ Throws(61)
       \/ /\ Returns(61)
          /\ model' = [model EXCEPT !.particles = @ \cup {"mu"},
                                    !.refreshed = FALSE]
          /\ UNCHANGED <<muon, lib, wilsonVars, ioVars>>

\* model.refresh();
Refresh ==
    /\ At({64})
    /\ \/ Throws(64)
       \/ /\ Returns(64)
          /\ model' = [model EXCEPT !.refreshed = TRUE]
          /\ UNCHANGED <<muon, lib, wilsonVars, ioVars>>

\* Show(model.getFeynmanRules());
GetFeynmanRules ==
    /\ At({71})
    /\ \/ Throws(71)
       \/ /\ Returns(71)
          /\ UNCHANGED <<objVars, wilsonVars, ioVars>>

\* Display(x); and Show(x); of a model, an amplitude or a WilsonSet.
DisplayShow ==
    \E l \in {67, 98, 99, 107, 170, 171} :
        /\ At({l})
        /\ \/ Throws(l)
           \/ /\ Returns(l)
              /\ UNCHANGED <<objVars, wilsonVars, ioVars>>

\* cout << ... ; statements that call no framework function.
Cout ==
    \E l \in {73, 83, 97, 105, 126, 138, 145, 149, 159, 169, 191, 197, 205,
              209} :
        /\ At({l})
        /\ Flow(l)
        /\ UNCHANGED <<calls, objVars, wilsonVars, ioVars>>

\* ------------------------------------------------------- standard input
\* The user types a line: n characters and a newline reach the process.
TypeLine ==
    \E n \in 0..MaxExtra :
        /\ status = "running"
        /\ ~eof
        /\ typed < MaxLines
        /\ stdin' = stdin \o [i \in 1..n |-> "c"] \o << "\n" >>
        /\ typed' = typed + 1
        /\ newlines' = newlines + 1
        /\ UNCHANGED <<pc, status, exitCode, objVars, wilsonVars, producer,
                       reads, calls, eof, gotInput>>

\* Standard input reaches its end (closed pipe, Ctrl-D, /dev/null).
CloseStdin ==
    /\ status = "running"
    /\ ~eof
    /\ eof' = TRUE
    /\ UNCHANGED <<pc, status, exitCode, objVars, wilsonVars, producer,
                   reads, calls, stdin, typed, newlines, gotInput>>

\* cin.get(); extracts one character; blocks while none is available and
\* the stream is open; returns at once at end of input.
CinGet ==
    \E l \in {75, 150, 210} :
        /\ At({l})
        /\ \/ /\ stdin # << >>
              /\ stdin' = Tail(stdin)
              /\ gotInput' = Append(gotInput, TRUE)
           \/ /\ stdin = << >>
              /\ eof
              /\ stdin' = stdin
              /\ gotInput' = Append(gotInput, FALSE)
        /\ Flow(l)
        /\ UNCHANGED <<calls, objVars, wilsonVars, eof, typed, newlines>>

\* --------------------------------------------- stage 2: the self-energy
\* Amplitude selfEnergy = model.computeAmplitude(OneLoop, {...});
ComputeAmplitude ==
    /\ At({93})
    /\ \/ Throws(93)
       \/ /\ Returns(93)
          /\ UNCHANGED <<objVars, wilsonVars, ioVars>>

\* WilsonSet wilsonsSelfEnergy = model.getWilsonCoefficients(selfEnergy);
\* The framework decides how many terms the set has.
GetWilsonCoefficients ==
    /\ At({106})
    /\ \/ Throws(106)
       \/ /\ Returns(106)
          /\ \E n \in 0..MaxWilson : wsLen' = n
          /\ UNCHANGED <<objVars, accesses, garbage, ioVars>>

\* The variable initialised from wilsonsSelfEnergy[i] at line l.
IndexTarget(l) ==
    IF l = 119 THEN "muonSelfEnergy_mTerm" ELSE "muonSelfEnergy_pTerm"

\* Expr muonSelfEnergy_mTerm = wilsonsSelfEnergy[0].coef.getCoefficient();
\* Expr muonSelfEnergy_pTerm = wilsonsSelfEnergy[1].coef.getCoefficient();
\* operator[] is unchecked: past the end the behaviour is undefined, the
\* process either faults or goes on with an indeterminate value.
IndexWilson ==
    \E l \in {119, 120} :
        LET i == IF l = 119 THEN 0 ELSE 1 IN
        /\ At({l})
        /\ accesses' = accesses \cup {[line |-> l, index |-> i, size |-> wsLen]}
        /\ \/ /\ i < wsLen
              /\ Flow(l)
              /\ UNCHANGED <<garbage, calls, objVars, wsLen, ioVars>>
           \/ /\ i >= wsLen
              /\ Flow(l)
              /\ garbage' = garbage \cup {IndexTarget(l)}
              /\ UNCHANGED <<calls, objVars, wsLen, ioVars>>
           \/ /\ i >= wsLen
              /\ pc' = l
              /\ status' = "crashed"
              /\ exitCode' = 139
              /\ DoReads(l)
              /\ UNCHANGED <<producer, garbage, calls, objVars, wsLen, ioVars>>

\* Evaluated(expr, eval::abbreviation), printed or stored.
Evaluated ==
    \E l \in {127, 130, 140, 192, 196} :
        /\ At({l})
        /\ \/ Throws(l)
           \/ UsesGarbage(l) /\ Crash(l)
           \/ /\ Returns(l)
              /\ UNCHANGED <<objVars, wilsonVars, ioVars>>

\* Expr squaredSelfEnergy = model.computeSquaredAmplitude(selfEnergy);
ComputeSquaredAmplitude ==
    /\ At({137})
    /\ \/ Throws(137)
       \/ /\ Returns(137)
          /\ UNCHANGED <<objVars, wilsonVars, ioVars>>

\* DeepHardFactored(DeepExpanded(expr));
Simplify ==
    \E l \in {144, 204} :
        /\ At({l})
        /\ \/ Throws(l)
           \/ /\ Returns(l)
              /\ UNCHANGED <<objVars, wilsonVars, ioVars>>

\* ------------------------------------------ stage 3: the magnetic moment
\* WilsonSet wilsonsMuonVertex = model.computeWilsonCoefficients(...);
ComputeWilsonCoefficients ==
    /\ At({165})
    /\ \/ Throws(165)
       \/ /\ Returns(165)
          /\ UNCHANGED <<objVars, wilsonVars, ioVars>>

\* vector<Wilson> muonMagOp = chromoMagneticOperator(model, ...);
ChromoMagneticOperator ==
    /\ At({179})
    /\ \/ Throws(179)
       \/ /\ Returns(179)
          /\ UNCHANGED <<objVars, wilsonVars, ioVars>>

\* Expr muonMagneticMoment = getWilsonCoefficient(wilsonsMuonVertex, muonMagOp);
GetWilsonCoefficient ==
    /\ At({186})
    /\ \/ Throws(186)
       \/ /\ Returns(186)
          /\ UNCHANGED <<objVars, wilsonVars, ioVars>>

\* ---------------------------------------------- stage 4: the library
\* Library lib("demolib");
LibraryConstruct ==
    /\ At({221})
    /\ \/ Throws(221)
       \/ /\ Returns(221)
          /\ lib' = [lib EXCEPT !.constructed = TRUE]
          /\ UNCHANGED <<model, muon, wilsonVars, ioVars>>

\* lib.cleanExistingSources();  Recorded when invoked, with the number of
\* functions added and of builds made by then.
CleanExistingSources ==
    /\ At({226})
    /\ lib' = [lib EXCEPT !.cleans =
                  Append(@, [adds |-> Len(lib.functions),
                             builds |-> lib.builds,
                             constructed |-> lib.constructed])]
    /\ \/ /\ Call(226, FALSE)
          /\ Terminate(226)
          /\ DoReads(226)
          /\ UNCHANGED <<producer, model, muon, wilsonVars, ioVars>>
       \/ /\ Returns(226)
          /\ UNCHANGED <<model, muon, wilsonVars, ioVars>>

\* lib.addFunction(name, expr);
AddFunction ==
    \E l \in 230..235 :
        /\ At({l})
        /\ \/ Throws(l)
           \/ UsesGarbage(l) /\ Crash(l)
           \/ /\ Returns(l)
              /\ lib' = [lib EXCEPT
                            !.functions = Append(@, FunctionName(l)),
                            !.addsAfterBuild =
                                IF lib.builds > 0 THEN @ + 1 ELSE @]
              /\ UNCHANGED <<model, muon, wilsonVars, ioVars>>

\* lib.build();  The call is recorded when issued, whether or not it returns.
Build ==
    /\ At({241})
    /\ lib' = [lib EXCEPT !.builds = @ + 1]
    /\ \/ /\ Call(241, FALSE)
          /\ Terminate(241)
          /\ DoReads(241)
          /\ UNCHANGED <<producer, model, muon, wilsonVars, ioVars>>
       \/ /\ Returns(241)
          /\ UNCHANGED <<model, muon, wilsonVars, ioVars>>

\* return 0;
Return ==
    /\ At({244})
    /\ pc' = EndLine
    /\ status' = "returned"
    /\ exitCode' = 0
    /\ UNCHANGED <<producer, reads, calls, objVars, wilsonVars, ioVars>>

Next ==
    \/ ConstructModel \/ AddGaugedGroup \/ ModelInit \/ RenameParticle
    \/ DiracFermion \/ SetGroupRep \/ SetMass \/ AddParticle \/ Refresh
    \/ GetFeynmanRules \/ DisplayShow \/ Cout
    \/ TypeLine \/ CloseStdin \/ CinGet
    \/ ComputeAmplitude \/ GetWilsonCoefficients \/ IndexWilson \/ Evaluated
    \/ ComputeSquaredAmplitude \/ Simplify
    \/ ComputeWilsonCoefficients \/ ChromoMagneticOperator
    \/ GetWilsonCoefficient
    \/ LibraryConstruct \/ CleanExistingSources \/ AddFunction \/ Build
    \/ Return

Spec == Init /\ [][Next]_vars

\* ------------------------------------------------------------ properties
\* The lines of main() that call the framework.
CallLines == { Lines[i] : i \in 1..Len(Lines) } \ 
             { l \in { Lines[i] : i \in 1..Len(Lines) } : CallName(l) = "none" }

\* The requests for a computation on the model.
Computations ==
    { "getFeynmanRules", "computeAmplitude", "getWilsonCoefficients",
      "computeSquaredAmplitude", "computeWilsonCoefficients" }

\* The function names of the generated library, in the order of section 6.
SixNames ==
    << "mu_self_e_mterm", "mu_self_e_pterm", "mu_self_e_squared",
       "mu_magnetic_vertex", "mu_magnetic_vertex_eval",
       "mu_magnetic_vertex_simpli" >>

IsPrefix(s, t) == Len(s) <= Len(t) /\ \A i \in 1..Len(s) : s[i] = t[i]

\* C1: the stages run strictly in order.  When a framework call is issued
\* every earlier call has returned, no call of a later stage precedes it,
\* every call site of every earlier stage has been executed and returned, and
\* no call site is executed twice.
Thm_C1_StageOrder ==
    \A i \in 1..Len(calls) :
        /\ i < Len(calls) => calls[i].ok
        /\ \A j \in 1..(i - 1) :
              /\ calls[j].stage <= calls[i].stage
              /\ calls[j].line # calls[i].line
        /\ \A l \in CallLines :
              StageOf(l) < calls[i].stage =>
                  \E j \in 1..(i - 1) : calls[j].line = l /\ calls[j].ok

Wit_C1_AllStagesRan ==
    /\ status = "returned"
    /\ \E i \in 1..Len(calls) : calls[i].name = "build" /\ calls[i].ok
    /\ \E i \in 1..Len(calls) : calls[i].stage = 2
    /\ \E i \in 1..Len(calls) : calls[i].stage = 3

\* C2: when build() is invoked the library has received exactly the six
\* functions of section 6, in that order and none twice; nothing is added
\* after build(), and build() is invoked at most once.
Thm_C2_SixFunctions ==
    /\ lib.builds <= 1
    /\ lib.addsAfterBuild = 0
    /\ IsPrefix(lib.functions, SixNames)
    /\ \A i, j \in 1..Len(lib.functions) :
          i # j => lib.functions[i] # lib.functions[j]
    /\ lib.builds >= 1 => lib.functions = SixNames
    /\ \A i \in 1..Len(calls) :
          calls[i].name = "build" =>
              Cardinality({ j \in 1..(i - 1) :
                  calls[j].name = "addFunction" /\ calls[j].ok }) = 6

Wit_C2_Built ==
    lib.builds = 1 /\ Len(lib.functions) = 6 /\ status = "returned"

\* C3: cleanExistingSources() is invoked at most once, on the constructed
\* library, with no function added and no build made yet; by the first
\* addFunction call, and at the end of a complete run, it has been invoked
\* exactly once.
Thm_C3_CleanOnce ==
    /\ Len(lib.cleans) <= 1
    /\ \A k \in 1..Len(lib.cleans) :
          /\ lib.cleans[k].constructed
          /\ lib.cleans[k].adds = 0
          /\ lib.cleans[k].builds = 0
    /\ \A i \in 1..Len(calls) :
          calls[i].name \in {"addFunction", "build"} =>
              /\ Len(lib.cleans) = 1
              /\ \E j \in 1..(i - 1) :
                    calls[j].name = "cleanExistingSources" /\ calls[j].ok
    /\ status = "returned" => Len(lib.cleans) = 1

Wit_C3_CleanedThenAdded ==
    /\ Len(lib.cleans) = 1
    /\ Len(lib.functions) >= 1

\* C4: every computation request is issued on a refreshed model: refresh()
\* has returned before it and no group or particle was added in between.
Thm_C4_RefreshedBeforeCompute ==
    \A i \in 1..Len(calls) :
        calls[i].name \in Computations =>
            /\ calls[i].fresh
            /\ \E j \in 1..(i - 1) :
                  /\ calls[j].name = "refresh"
                  /\ calls[j].ok
                  /\ \A k \in (j + 1)..(i - 1) :
                        calls[k].name \notin {"addGaugedGroup", "addParticle"}

Wit_C4_Computed ==
    \E i \in 1..Len(calls) :
        calls[i].name = "computeWilsonCoefficients" /\ calls[i].ok

\* C5: the model is built in the order construct, addGaugedGroup, init,
\* addParticle, refresh; setGroupRep("em") comes after the group "em" was
\* added and init() has run.
Thm_C5_Lifecycle ==
    \A i \in 1..Len(calls) :
        /\ i = 1 => calls[i].name = "Model"
        /\ calls[i].name = "addGaugedGroup" => ~calls[i].inited
        /\ calls[i].name = "init" => calls[i].hasEm
        /\ calls[i].name = "setGroupRep" => calls[i].hasEm /\ calls[i].inited
        /\ calls[i].name = "addParticle" =>
              /\ calls[i].inited
              /\ \A j \in 1..(i - 1) : calls[j].name # "refresh"
        /\ calls[i].name = "refresh" =>
              \E j \in 1..(i - 1) : calls[j].name = "addParticle" /\ calls[j].ok

Wit_C5_ModelFinished ==
    /\ model.refreshed
    /\ model.particles = {"mu"}
    /\ muon.reps = {<<"em", -1>>}

\* C6: the k-th wait is passed only after the k-th newline has reached
\* standard input, each wait having read input.
Claim_C6_OneNewlinePerWait ==
    \A k \in 1..Len(gotInput) : gotInput[k] /\ newlines >= k

\* C7: a run in which every framework call returned and every wait read its
\* input ends only by returning from main() after build(), with exit code 0.
Claim_C7_NormalExit ==
    /\ status = "returned" => exitCode = 0
    /\ ( /\ status # "running"
         /\ \A i \in 1..Len(calls) : calls[i].ok
         /\ \A k \in 1..Len(gotInput) : gotInput[k] )
       => /\ status = "returned"
          /\ exitCode = 0
          /\ \E i \in 1..Len(calls) : calls[i].name = "build" /\ calls[i].ok

\* C8 as stated: every value a stage reads was produced by that stage or by
\* the stage just before it.
Claim_C8_PreviousStageOnly ==
    \A r \in reads : r.from \in {r.stage - 1, r.stage}

\* The expressions of stage 2 and of stage 3 that the library receives.
Stage2Exprs ==
    {"muonSelfEnergy_mTerm", "muonSelfEnergy_pTerm", "squaredSelfEnergy"}
Stage3Exprs ==
    {"muonMagneticMoment", "evaluatedMagneticMoment",
     "simplifiedMagneticMoment"}

\* C8 amended: every value read was defined before, in the same or an
\* earlier stage; from earlier stages, stage 2 and stage 3 read only the
\* model of stage 1, and stage 4 reads only the three expressions of stage 2
\* and the three expressions of stage 3.
Thm_C8_StageInputs ==
    \A r \in reads :
        /\ r.from >= 1
        /\ r.from <= r.stage
        /\ r.from < r.stage =>
              /\ r.stage \in {2, 3} => r.var = "model" /\ r.from = 1
              /\ r.stage = 4 =>
                    \/ r.var \in Stage2Exprs /\ r.from = 2
                    \/ r.var \in Stage3Exprs /\ r.from = 3

Wit_C8_LibraryInputs ==
    /\ \E r \in reads : r.stage = 3 /\ r.var = "model" /\ r.from = 1
    /\ \A v \in Stage2Exprs :
          \E r \in reads : r.stage = 4 /\ r.var = v /\ r.from = 2
    /\ \A v \in Stage3Exprs :
          \E r \in reads : r.stage = 4 /\ r.var = v /\ r.from = 3

\* C9: a framework call that fails is the last call of the run: nothing is
\* called after it, it is not called again, and the run ends abnormally,
\* never with exit code 0.
Thm_C9_FailureEndsRun ==
    \A i \in 1..Len(calls) :
        ~calls[i].ok =>
            /\ i = Len(calls)
            /\ status = "terminated"
            /\ pc = calls[i].line
            /\ exitCode \notin {-1, 0}
            /\ \A j \in 1..(i - 1) : calls[j].line # calls[i].line
            /\ calls[i].stage < 4 => Len(lib.functions) = 0 /\ lib.builds = 0

Wit_C9_ComputationFailed ==
    \E i \in 1..Len(calls) :
        calls[i].name = "computeAmplitude" /\ ~calls[i].ok

\* C10: every access wilsonsSelfEnergy[i] is within the bounds of the set.
Claim_C10_InBounds ==
    \A a \in accesses : a.index < a.size
====
